---- MODULE Spec2Model ----
(***************************************************************************)
(* FuelWise: a model of the application controller (App), the vehicle form *)
(* (VehicleManager), the remote adapters (apiService, vehicleService) and  *)
(* the local durable storage (storageService).                             *)
(*                                                                         *)
(* Every event the browser delivers to the application (a user gesture, a  *)
(* resolved promise, an expired timer) is one action.  An action applies   *)
(* the handler's batched state updates, re-renders, and runs the effects   *)
(* whose dependencies changed, until no effect is left to run.             *)
(*                                                                         *)
(* JavaScript numbers are modelled as exact fractions n/d extended with    *)
(* the IEEE-754 specials (d = 0): rounding is not modelled.                *)
(***************************************************************************)
EXTENDS Integers, Sequences, FiniteSets, TLC

(***************************************************************************)
(* Numbers                                                                 *)
(***************************************************************************)
Abs(i) == IF i < 0 THEN -i ELSE i

Sign(i) == IF i < 0 THEN -1 ELSE IF i > 0 THEN 1 ELSE 0

RECURSIVE Gcd(_, _)
Gcd(a, b) == IF b = 0 THEN a ELSE Gcd(b, a % b)

\* n/d in lowest terms with d >= 0; 1/0 is Infinity, -1/0 is -Infinity, 0/0 is NaN.
Num(n, d) ==
  IF d = 0 THEN [n |-> Sign(n), d |-> 0]
  ELSE LET g == Gcd(Abs(n), Abs(d))
       IN  [n |-> (Sign(d) * n) \div g, d |-> Abs(d) \div g]

Int2Num(i) == Num(i, 1)

NaN == Num(0, 0)

Infinity == Num(1, 0)

NumMul(a, b) == Num(a.n * b.n, a.d * b.d)

NumDiv(a, b) == Num(a.n * b.d, a.d * b.n)

IsFinite(a) == a.d # 0

IsNaN(a) == a.n = 0 /\ a.d = 0

\* a > 0 as JavaScript evaluates it (false for NaN).
NumPositive(a) == a.n > 0

\* JavaScript truthiness of a number: 0 and NaN are falsy.
NumTruthy(a) == a.n # 0

(***************************************************************************)
(* Values                                                                  *)
(***************************************************************************)
\* null for object-valued state, and for string-valued state.
Null == [null |-> TRUE]

NullStr == "null"

\* The value '' of an emptied number input.
EmptyInput == [empty |-> TRUE]

L_PER_100KM == "L_PER_100KM"

KM_PER_L == "KM_PER_L"

FuelUnit == {L_PER_100KM, KM_PER_L}

Vehicle(id, name, value, unit) ==
  [id |-> id, name |-> name, fuelType |-> "diesel",
   consumptionValue |-> value, consumptionUnit |-> unit]

LocationPoint(lat, lon, label) == [lat |-> lat, lon |-> lon, label |-> label]

(***************************************************************************)
(* Bounds of the model                                                     *)
(***************************************************************************)
\* Requests of one kind that may be outstanding at the same time.
MaxInFlight == 2

\* Completed price refreshes (each one stamps a later lastUpdated).
MaxRefresh == 2

\* Vehicle saves, and vehicle deletions, that may be outstanding at the same time.
MaxWrites == 1

\* Searches issued on one channel, and route requests issued, in one run.
MaxSearches == 3

MaxRoutes == 3

(***************************************************************************)
(* The remote services, as the adapters see them                           *)
(***************************************************************************)
\* Places the geocoding service knows (NominatimResult: lat and lon are strings).
NominatimMadrid == [lat |-> "40", lon |-> "-4", display_name |-> "Madrid, ES"]

NominatimBarcelona == [lat |-> "41", lon |-> "2", display_name |-> "Barcelona, ES"]

\* The candidates the service returns for a free-text query.
NominatimData(query) ==
  CASE query \in {"Madrid", "Madrid, ES"} -> <<NominatimMadrid>>
    [] query \in {"Barcelona", "Barcelona, ES"} -> <<NominatimBarcelona>>
    [] OTHER -> <<>>

\* parseFloat on the coordinate strings the service sends.
ParseCoord(str) ==
  CASE str = "40" -> 40
    [] str = "-4" -> -4
    [] str = "41" -> 41
    [] str = "2" -> 2

\* `${lat.toFixed(4)}, ${lon.toFixed(4)}`
CoordLabel(lat, lon) ==
  CASE lat = 40 /\ lon = -4 -> "40.0000, -4.0000"
    [] lat = 41 /\ lon = 2 -> "41.0000, 2.0000"

\* fetch() outcomes of an adapter call.
FetchOutcomes == {"ok", "http_error", "network_error"}

\* The routing service: distance in meters and duration in seconds of the
\* first route candidate from start to end.
OsrmRoute(start, end) ==
  IF start.lat < end.lat
  THEN [distance |-> 100000, duration |-> 3600,
        geometry |-> <<start.lon, start.lat, end.lon, end.lat>>]
  ELSE [distance |-> 150000, duration |-> 5400,
        geometry |-> <<start.lon, start.lat, end.lon, end.lat>>]

(***************************************************************************)
(* State                                                                   *)
(***************************************************************************)
VARIABLES
  \* App: vehicles
  vehicles, selectedVehicleId,
  \* App: trip
  origin, destination, route, isRouting, routeError,
  \* App: inputs
  originQuery, destQuery, originSuggestions, destSuggestions, isLocatingUser,
  debouncedOriginQuery, debouncedDestQuery,
  \* App: fuel price and calculation
  fuelPrice, priceLoading, calculation,
  \* VehicleManager
  isModalOpen, editingVehicle,
  \* the browser: whether App is mounted, local storage, the last alert shown,
  \* the debounce timers
  mounted, localStorage, alertShown, originTimer, destTimer,
  \* the remote vehicle collection
  firestore,
  \* outstanding asynchronous calls
  getVehiclesPending, savePending, deletePending, originSearches, destSearches,
  routeRequests, geoPending, pricePending,
  \* history: what local storage held when the application started, how the
  \* initial fetch ended, the number of searches issued on each channel and of
  \* route requests issued (each call carries its number), and the outcome of
  \* the route request issued last
  startVehicles, getVehiclesResult, originSearchSeq, destSearchSeq, routeSeq,
  latestRouteResult,
  \* history: what produced the price local storage holds ("none": nothing is
  \* stored; "unknown": a session before the first one of the behaviour;
  \* "default": the built-in price; "auto": a refresh; "manual": an edit)
  storedPriceOrigin

vars ==
  <<vehicles, selectedVehicleId, origin, destination, route, isRouting, routeError,
    originQuery, destQuery, originSuggestions, destSuggestions, isLocatingUser,
    debouncedOriginQuery, debouncedDestQuery, fuelPrice, priceLoading, calculation,
    isModalOpen, editingVehicle, mounted, localStorage, alertShown, originTimer,
    destTimer, firestore, getVehiclesPending, savePending, deletePending,
    originSearches, destSearches, routeRequests, geoPending, pricePending,
    startVehicles, getVehiclesResult, originSearchSeq, destSearchSeq, routeSeq,
    latestRouteResult, storedPriceOrigin>>

\* The whole state as one record: handlers and effects are functions on it.
Cur ==
  [vehicles |-> vehicles, selectedVehicleId |-> selectedVehicleId,
   origin |-> origin, destination |-> destination, route |-> route,
   isRouting |-> isRouting, routeError |-> routeError,
   originQuery |-> originQuery, destQuery |-> destQuery,
   originSuggestions |-> originSuggestions, destSuggestions |-> destSuggestions,
   isLocatingUser |-> isLocatingUser,
   debouncedOriginQuery |-> debouncedOriginQuery,
   debouncedDestQuery |-> debouncedDestQuery,
   fuelPrice |-> fuelPrice, priceLoading |-> priceLoading,
   calculation |-> calculation,
   isModalOpen |-> isModalOpen, editingVehicle |-> editingVehicle,
   mounted |-> mounted, localStorage |-> localStorage, alertShown |-> alertShown,
   originTimer |-> originTimer, destTimer |-> destTimer,
   firestore |-> firestore,
   getVehiclesPending |-> getVehiclesPending, savePending |-> savePending,
   deletePending |-> deletePending, originSearches |-> originSearches,
   destSearches |-> destSearches, routeRequests |-> routeRequests,
   geoPending |-> geoPending, pricePending |-> pricePending,
   startVehicles |-> startVehicles, getVehiclesResult |-> getVehiclesResult,
   originSearchSeq |-> originSearchSeq, destSearchSeq |-> destSearchSeq,
   routeSeq |-> routeSeq, latestRouteResult |-> latestRouteResult,
   storedPriceOrigin |-> storedPriceOrigin]

\* The model keeps at most MaxInFlight calls of a kind outstanding (MaxWrites
\* for the writes to the remote collection).
WithinBounds(W) ==
  /\ Cardinality(W.savePending) <= MaxWrites
  /\ Cardinality(W.deletePending) <= MaxWrites
  /\ Cardinality(W.originSearches) <= MaxInFlight
  /\ Cardinality(W.destSearches) <= MaxInFlight
  /\ Cardinality(W.routeRequests) <= MaxInFlight
  /\ W.geoPending <= MaxInFlight
  /\ W.pricePending <= MaxInFlight
  /\ W.fuelPrice.lastUpdated <= MaxRefresh
  /\ W.originSearchSeq <= MaxSearches
  /\ W.destSearchSeq <= MaxSearches
  /\ W.routeSeq <= MaxRoutes

\* The state W becomes the next state.
Commit(W) ==
  /\ WithinBounds(W)
  /\ vehicles' = W.vehicles
  /\ selectedVehicleId' = W.selectedVehicleId
  /\ origin' = W.origin
  /\ destination' = W.destination
  /\ route' = W.route
  /\ isRouting' = W.isRouting
  /\ routeError' = W.routeError
  /\ originQuery' = W.originQuery
  /\ destQuery' = W.destQuery
  /\ originSuggestions' = W.originSuggestions
  /\ destSuggestions' = W.destSuggestions
  /\ isLocatingUser' = W.isLocatingUser
  /\ debouncedOriginQuery' = W.debouncedOriginQuery
  /\ debouncedDestQuery' = W.debouncedDestQuery
  /\ fuelPrice' = W.fuelPrice
  /\ priceLoading' = W.priceLoading
  /\ calculation' = W.calculation
  /\ isModalOpen' = W.isModalOpen
  /\ editingVehicle' = W.editingVehicle
  /\ mounted' = W.mounted
  /\ localStorage' = W.localStorage
  /\ alertShown' = W.alertShown
  /\ originTimer' = W.originTimer
  /\ destTimer' = W.destTimer
  /\ firestore' = W.firestore
  /\ getVehiclesPending' = W.getVehiclesPending
  /\ savePending' = W.savePending
  /\ deletePending' = W.deletePending
  /\ originSearches' = W.originSearches
  /\ destSearches' = W.destSearches
  /\ routeRequests' = W.routeRequests
  /\ geoPending' = W.geoPending
  /\ pricePending' = W.pricePending
  /\ startVehicles' = W.startVehicles
  /\ getVehiclesResult' = W.getVehiclesResult
  /\ originSearchSeq' = W.originSearchSeq
  /\ destSearchSeq' = W.destSearchSeq
  /\ routeSeq' = W.routeSeq
  /\ latestRouteResult' = W.latestRouteResult
  /\ storedPriceOrigin' = W.storedPriceOrigin

(***************************************************************************)
(* storageService                                                          *)
(***************************************************************************)
\* JSON.stringify / JSON.parse of a vehicle list.
JsonStringify(list) == [json |-> list]

JsonParse(data) == data.json

\* Number.prototype.toString and parseFloat on the prices of the model.
PriceStrings ==
  << <<Num(8, 5), "1.6">>, <<Num(31, 20), "1.55">>, <<Num(17, 10), "1.7">>,
     <<Num(3, 2), "1.5">>, <<Num(0, 1), "0">>, <<Num(-1, 1), "-1">>,
     <<NaN, "NaN">> >>

NumToString(a) ==
  LET i == CHOOSE k \in 1..Len(PriceStrings) : PriceStrings[k][1] = a
  IN  PriceStrings[i][2]

ParseFloat(str) ==
  IF \E k \in 1..Len(PriceStrings) : PriceStrings[k][2] = str
  THEN LET i == CHOOSE k \in 1..Len(PriceStrings) : PriceStrings[k][2] = str
       IN  PriceStrings[i][1]
  ELSE NaN

getStoredVehicles(ls) ==
  IF ls.fuelwise_vehicles # Null THEN JsonParse(ls.fuelwise_vehicles) ELSE <<>>

saveStoredVehicles(ls, list) ==
  [ls EXCEPT !.fuelwise_vehicles = JsonStringify(list)]

getStoredSelectedVehicleId(ls) == ls.fuelwise_selected_vehicle_id

saveStoredSelectedVehicleId(ls, id) ==
  [ls EXCEPT !.fuelwise_selected_vehicle_id = id]

\* A number, or Null when the key is absent.
getStoredPrice(ls) ==
  IF ls.fuelwise_last_price \notin {NullStr, ""}
  THEN ParseFloat(ls.fuelwise_last_price)
  ELSE Null

saveStoredPrice(ls, price) ==
  [ls EXCEPT !.fuelwise_last_price = NumToString(price)]

(***************************************************************************)
(* apiService and vehicleService                                           *)
(***************************************************************************)
\* What searchLocation resolves to once fetch ended with `outcome`.
searchLocation(query, outcome) ==
  IF query = "" \/ Len(query) < 3 THEN <<>>
  ELSE IF outcome # "ok" THEN <<>>
  ELSE LET data == NominatimData(query)
       IN  [i \in 1..Len(data) |->
             LocationPoint(ParseCoord(data[i].lat), ParseCoord(data[i].lon),
                           data[i].display_name)]

\* reverseGeocode without its catch branch and its || fallback.
reverseGeocode_NoFallback(lat, lon, outcome, name) == name

\* What reverseGeocode resolves to: the display name the service holds for
\* the coordinates (`name`, "" when it holds none), or the coordinate text.
reverseGeocode(lat, lon, outcome, name) ==
  IF outcome = "ok" /\ name # "" THEN name ELSE CoordLabel(lat, lon)

\* What calculateRoute resolves to: `code` is the status code of the routing
\* response and `candidates` the number of routes in it.
calculateRoute(start, end, outcome, code, candidates) ==
  IF outcome # "ok" \/ code # "Ok" \/ candidates = 0 THEN Null
  ELSE LET r == OsrmRoute(start, end)
       IN  [distanceKm |-> NumDiv(Int2Num(r.distance), Int2Num(1000)),
            durationMin |-> NumDiv(Int2Num(r.duration), Int2Num(60)),
            geometry |-> r.geometry]

\* The prices fetchFuelPrice may resolve to (1.55 + random * 0.15, 3 decimals).
FuelPrices == {Num(31, 20), Num(17, 10)}

\* The ids of the documents the collection may start with, in the order the
\* collection lists them.
VehicleIds == <<"v1", "v2">>

\* The same with the id that a vehicle added in the session gets.
CollectionIds == VehicleIds \o <<"v3">>

\* getDocs(collection(db, "vehicles")).docs.map(doc => doc.data())
getVehicles(store) ==
  LET ids == SelectSeq(CollectionIds, LAMBDA id : id \in DOMAIN store)
  IN  [i \in 1..Len(ids) |-> store[ids[i]]]

\* setDoc(doc(db, "vehicles", vehicle.id), vehicle)
saveVehicle(store, vehicle) ==
  [id \in DOMAIN store \cup {vehicle.id} |->
     IF id = vehicle.id THEN vehicle ELSE store[id]]

\* deleteDoc(doc(db, "vehicles", id))
deleteVehicle(store, id) == [i \in DOMAIN store \ {id} |-> store[i]]

(***************************************************************************)
(* App: the cost calculation                                               *)
(***************************************************************************)
\* vehicles.find(v => v.id === id): the first match, or Null.
FindVehicle(list, id) ==
  IF \E i \in 1..Len(list) : list[i].id = id
  THEN list[CHOOSE i \in 1..Len(list) :
              /\ list[i].id = id
              /\ \A j \in 1..(i - 1) : list[j].id # id]
  ELSE Null

\* calculateCost without the conversion of km/L into L/100km.
LPer100_NoConversion(vehicle) == vehicle.consumptionValue

\* The normalized consumption (lPer100) of calculateCost.
LPer100(vehicle) ==
  IF vehicle.consumptionUnit = KM_PER_L
  THEN NumDiv(Int2Num(100), vehicle.consumptionValue)
  ELSE vehicle.consumptionValue

\* The TripCalculation calculateCost stores for a vehicle, a route and a price.
TripCalculation(vehicle, distanceKm, price) ==
  LET lPer100 == LPer100(vehicle)
      litersNeeded == NumMul(distanceKm, NumDiv(lPer100, Int2Num(100)))
      totalCost == NumMul(litersNeeded, price)
  IN  [litersNeeded |-> litersNeeded,
       totalCost |-> totalCost,
       costPer100Km |-> NumMul(lPer100, price)]

\* calculateCost, run in the render R: the calculation it leaves in W.
calculateCost(R, W) ==
  IF R.route = Null \/ R.selectedVehicleId = NullStr
  THEN [W EXCEPT !.calculation = Null]
  ELSE LET vehicle == FindVehicle(R.vehicles, R.selectedVehicleId)
       IN  IF vehicle = Null THEN W
           ELSE [W EXCEPT !.calculation =
                   TripCalculation(vehicle, R.route.distanceKm, R.fuelPrice.price)]

(***************************************************************************)
(* App: the effects.  An effect runs in a render R (the state its closure  *)
(* reads) and changes W: its state updates are queued for the next render, *)
(* its writes to the browser and its calls take place at once.             *)
(***************************************************************************)
\* The marker of a route request that has not completed.
Pending == [pending |-> TRUE]

\* useDebounce: the pending timer is cleared and a new one is set.
useDebounceOrigin(R, W) == [W EXCEPT !.originTimer = TRUE]

useDebounceDest(R, W) == [W EXCEPT !.destTimer = TRUE]

refreshFuelPrice(W) ==
  [W EXCEPT !.priceLoading = TRUE, !.pricePending = @ + 1]

\* The initialization effect: initializeData runs up to its await; the
\* stored price is adopted as a manual price, or a refresh is started.
InitializationEffect(R, W) ==
  LET storedPrice == getStoredPrice(W.localStorage)
      W1 == [W EXCEPT !.getVehiclesPending = TRUE]
  IN  IF storedPrice # Null /\ NumTruthy(storedPrice)
      THEN [W1 EXCEPT !.fuelPrice = [@ EXCEPT !.price = storedPrice,
                                               !.isAuto = FALSE]]
      ELSE refreshFuelPrice(W1)

\* The selection effect ignoring the stored id.
SelectionEffect_AlwaysFirst(R, W) ==
  IF Len(R.vehicles) > 0 /\ R.selectedVehicleId = NullStr
  THEN [W EXCEPT !.selectedVehicleId = R.vehicles[1].id]
  ELSE W

\* "Update selected vehicle after vehicles list is loaded"
SelectionEffect(R, W) ==
  IF Len(R.vehicles) > 0 /\ R.selectedVehicleId = NullStr
  THEN LET storedId == getStoredSelectedVehicleId(W.localStorage)
       IN  IF storedId \notin {NullStr, ""} /\ FindVehicle(R.vehicles, storedId) # Null
           THEN [W EXCEPT !.selectedVehicleId = storedId]
           ELSE [W EXCEPT !.selectedVehicleId = R.vehicles[1].id]
  ELSE W

PersistVehiclesEffect(R, W) ==
  [W EXCEPT !.localStorage = saveStoredVehicles(@, R.vehicles)]

PersistSelectedEffect(R, W) ==
  IF R.selectedVehicleId # NullStr
  THEN [W EXCEPT !.localStorage = saveStoredSelectedVehicleId(@, R.selectedVehicleId)]
  ELSE W

PersistPriceEffect(R, W) ==
  [W EXCEPT !.localStorage = saveStoredPrice(@, R.fuelPrice.price)]

OriginAutocompleteEffect(R, W) ==
  IF R.origin # Null /\ R.origin.label = R.debouncedOriginQuery
  THEN [W EXCEPT !.originSuggestions = <<>>]
  ELSE IF Len(R.debouncedOriginQuery) > 2
  THEN [W EXCEPT !.originSearchSeq = @ + 1,
                 !.originSearches = @ \cup {[query |-> R.debouncedOriginQuery,
                                             seq |-> W.originSearchSeq + 1]}]
  ELSE [W EXCEPT !.originSuggestions = <<>>]

DestAutocompleteEffect(R, W) ==
  IF R.destination # Null /\ R.destination.label = R.debouncedDestQuery
  THEN [W EXCEPT !.destSuggestions = <<>>]
  ELSE IF Len(R.debouncedDestQuery) > 2
  THEN [W EXCEPT !.destSearchSeq = @ + 1,
                 !.destSearches = @ \cup {[query |-> R.debouncedDestQuery,
                                           seq |-> W.destSearchSeq + 1]}]
  ELSE [W EXCEPT !.destSuggestions = <<>>]

\* handleCalculateRoute up to its await.
handleCalculateRoute(R, W) ==
  IF R.origin = Null \/ R.destination = Null THEN W
  ELSE [W EXCEPT !.isRouting = TRUE,
                 !.routeError = NullStr,
                 !.routeSeq = @ + 1,
                 !.routeRequests = @ \cup {[start |-> R.origin, end |-> R.destination,
                                            seq |-> W.routeSeq + 1]},
                 !.latestRouteResult = Pending]

RoutingEffect(R, W) ==
  IF R.origin # Null /\ R.destination # Null THEN handleCalculateRoute(R, W) ELSE W

CalculationEffect(R, W) == calculateCost(R, W)

\* The dependencies of the effects.
AllDeps ==
  {"vehicles", "selectedVehicleId", "fuelPrice", "fuelPrice.price", "originQuery",
   "destQuery", "debouncedOriginQuery", "debouncedDestQuery", "origin",
   "destination", "route"}

\* An effect runs if its render is the first one or a dependency changed.
RunEffect(run, Effect(_, _), R, W) == IF run THEN Effect(R, W) ELSE W

\* The effects of one render, in the order the component declares them.
RunEffects(R, W, changed, first) ==
  LET Dep(deps) == first \/ deps \cap changed # {}
  IN  RunEffect(Dep({"route", "selectedVehicleId", "fuelPrice"}), CalculationEffect, R,
      RunEffect(Dep({"origin", "destination"}), RoutingEffect, R,
      RunEffect(Dep({"debouncedDestQuery", "destination"}), DestAutocompleteEffect, R,
      RunEffect(Dep({"debouncedOriginQuery", "origin"}), OriginAutocompleteEffect, R,
      RunEffect(Dep({"fuelPrice.price"}), PersistPriceEffect, R,
      RunEffect(Dep({"selectedVehicleId"}), PersistSelectedEffect, R,
      RunEffect(Dep({"vehicles"}), PersistVehiclesEffect, R,
      RunEffect(Dep({"vehicles", "selectedVehicleId"}), SelectionEffect, R,
      RunEffect(first, InitializationEffect, R,
      RunEffect(Dep({"destQuery"}), useDebounceDest, R,
      RunEffect(Dep({"originQuery"}), useDebounceOrigin, R, W)))))))))))

\* The dependencies whose value differs between two renders.
ChangedDeps(A, B) ==
  {d \in {"vehicles", "selectedVehicleId", "fuelPrice", "originQuery", "destQuery",
          "debouncedOriginQuery", "debouncedDestQuery", "origin", "destination",
          "route"} : A[d] # B[d]}
  \cup (IF A.fuelPrice.price # B.fuelPrice.price THEN {"fuelPrice.price"} ELSE {})

\* The render that follows the render A once its effects left B: the effects
\* whose dependencies the effects of A changed run again.
Rerender(A, B) == RunEffects(B, B, ChangedDeps(A, B), FALSE)

Settle(A, B) == Rerender(B, Rerender(A, B))

\* Render W and run the effects until none is left to run.  `changed` are the
\* dependencies the handler replaced (a new array or object counts as a change
\* even when it holds the same values).
Render(W, changed, first) == Settle(W, RunEffects(W, W, changed, first))

(***************************************************************************)
(* Initial states: the page is loaded and App is about to be mounted.      *)
(***************************************************************************)
CarA == Vehicle("v1", "Test Car", Int2Num(6), L_PER_100KM)

CarB == Vehicle("v2", "City Car", Int2Num(15), KM_PER_L)

\* What an earlier session may have left in local storage.
StoredLists == {<<>>, <<CarA>>, <<CarB, CarA>>}

StoredVehicleEntries == {Null} \cup {JsonStringify(list) : list \in StoredLists}

StoredIdEntries == {NullStr, "v1", "v2"}

StoredPriceEntries == {NullStr, "1.6", "1.5"}

\* What the remote collection may hold.
Stores == {<<>>, [id \in {"v1"} |-> CarA], [id \in {"v1", "v2"} |-> IF id = "v1" THEN CarA ELSE CarB]}

\* The useState initial values of App and VehicleManager, in a browser whose
\* local storage is `ls`, with the remote collection holding `store`.
InitialState(ls, store) ==
  [vehicles |-> <<>>,
   selectedVehicleId |-> NullStr,
   origin |-> Null,
   destination |-> Null,
   route |-> Null,
   isRouting |-> FALSE,
   routeError |-> NullStr,
   originQuery |-> "",
   destQuery |-> "",
   originSuggestions |-> <<>>,
   destSuggestions |-> <<>>,
   isLocatingUser |-> FALSE,
   debouncedOriginQuery |-> "",
   debouncedDestQuery |-> "",
   fuelPrice |-> [price |-> Num(8, 5), lastUpdated |-> 0, isAuto |-> TRUE],
   priceLoading |-> FALSE,
   calculation |-> Null,
   isModalOpen |-> FALSE,
   editingVehicle |-> Null,
   mounted |-> FALSE,
   localStorage |-> ls,
   alertShown |-> NullStr,
   originTimer |-> FALSE,
   destTimer |-> FALSE,
   firestore |-> store,
   getVehiclesPending |-> FALSE,
   savePending |-> {},
   deletePending |-> {},
   originSearches |-> {},
   destSearches |-> {},
   routeRequests |-> {},
   geoPending |-> 0,
   pricePending |-> 0,
   startVehicles |-> getStoredVehicles(ls),
   getVehiclesResult |-> Pending,
   originSearchSeq |-> 0,
   destSearchSeq |-> 0,
   routeSeq |-> 0,
   latestRouteResult |-> Null,
   storedPriceOrigin |-> IF ls.fuelwise_last_price = NullStr THEN "none"
                         ELSE "unknown"]

\* The current state is W.
StateIs(W) ==
  /\ vehicles = W.vehicles
  /\ selectedVehicleId = W.selectedVehicleId
  /\ origin = W.origin
  /\ destination = W.destination
  /\ route = W.route
  /\ isRouting = W.isRouting
  /\ routeError = W.routeError
  /\ originQuery = W.originQuery
  /\ destQuery = W.destQuery
  /\ originSuggestions = W.originSuggestions
  /\ destSuggestions = W.destSuggestions
  /\ isLocatingUser = W.isLocatingUser
  /\ debouncedOriginQuery = W.debouncedOriginQuery
  /\ debouncedDestQuery = W.debouncedDestQuery
  /\ fuelPrice = W.fuelPrice
  /\ priceLoading = W.priceLoading
  /\ calculation = W.calculation
  /\ isModalOpen = W.isModalOpen
  /\ editingVehicle = W.editingVehicle
  /\ mounted = W.mounted
  /\ localStorage = W.localStorage
  /\ alertShown = W.alertShown
  /\ originTimer = W.originTimer
  /\ destTimer = W.destTimer
  /\ firestore = W.firestore
  /\ getVehiclesPending = W.getVehiclesPending
  /\ savePending = W.savePending
  /\ deletePending = W.deletePending
  /\ originSearches = W.originSearches
  /\ destSearches = W.destSearches
  /\ routeRequests = W.routeRequests
  /\ geoPending = W.geoPending
  /\ pricePending = W.pricePending
  /\ startVehicles = W.startVehicles
  /\ getVehiclesResult = W.getVehiclesResult
  /\ originSearchSeq = W.originSearchSeq
  /\ destSearchSeq = W.destSearchSeq
  /\ routeSeq = W.routeSeq
  /\ latestRouteResult = W.latestRouteResult
  /\ storedPriceOrigin = W.storedPriceOrigin

InitWith(ls, store) == StateIs(InitialState(ls, store))

Init ==
  \E v \in StoredVehicleEntries, i \in StoredIdEntries, p \in StoredPriceEntries,
     store \in Stores :
    InitWith([fuelwise_vehicles |-> v, fuelwise_selected_vehicle_id |-> i,
              fuelwise_last_price |-> p], store)

(***************************************************************************)
(* Actions: loading                                                        *)
(***************************************************************************)
\* The first render of App and the effects that follow it.  Unless the
\* stored price is adopted, the price written to local storage is the
\* built-in one.
Mount ==
  /\ ~mounted
  /\ LET storedPrice == getStoredPrice(localStorage)
         adopted == storedPrice # Null /\ NumTruthy(storedPrice)
     IN  Commit(Render([Cur EXCEPT !.mounted = TRUE,
                                   !.storedPriceOrigin =
                                      IF adopted THEN @ ELSE "default"],
                       AllDeps, TRUE))

\* The page is closed or reloaded: the state of App is lost, its outstanding
\* calls are never resumed, local storage and the remote collection stay.
Reload ==
  /\ mounted
  /\ Commit([InitialState(localStorage, firestore) EXCEPT
               !.storedPriceOrigin = storedPriceOrigin])

\* initializeData without the fallback to the list of local storage.
GetVehiclesResolve_NoFallback(outcome) ==
  /\ mounted
  /\ getVehiclesPending
  /\ LET firebaseVehicles == getVehicles(firestore)
         list == IF outcome = "ok" THEN firebaseVehicles ELSE <<>>
         W == [Cur EXCEPT !.getVehiclesPending = FALSE,
                          !.vehicles = list,
                          !.getVehiclesResult =
                             IF outcome = "ok"
                             THEN [ok |-> TRUE, docs |-> firebaseVehicles]
                             ELSE [ok |-> FALSE, docs |-> <<>>]]
     IN  Commit(Render(W, {"vehicles"}, FALSE))

\* initializeData after its await: getVehicles resolved with the documents of
\* the collection (outcome "ok") or was rejected.
GetVehiclesResolve(outcome) ==
  /\ mounted
  /\ getVehiclesPending
  /\ LET firebaseVehicles == getVehicles(firestore)
         list == IF outcome = "ok" /\ Len(firebaseVehicles) > 0
                 THEN firebaseVehicles
                 ELSE getStoredVehicles(localStorage)
         W == [Cur EXCEPT !.getVehiclesPending = FALSE,
                          !.vehicles = list,
                          !.getVehiclesResult =
                             IF outcome = "ok"
                             THEN [ok |-> TRUE, docs |-> firebaseVehicles]
                             ELSE [ok |-> FALSE, docs |-> <<>>]]
     IN  Commit(Render(W, {"vehicles"}, FALSE))

\* refreshFuelPrice after its await: fetchFuelPrice resolved with `price`.
FetchFuelPriceResolve(price) ==
  /\ mounted
  /\ pricePending > 0
  /\ LET W == [Cur EXCEPT !.pricePending = @ - 1,
                          !.fuelPrice = [price |-> price,
                                         lastUpdated |-> fuelPrice.lastUpdated + 1,
                                         isAuto |-> TRUE],
                          !.priceLoading = FALSE,
                          !.storedPriceOrigin = "auto"]
     IN  Commit(Render(W, {"fuelPrice"} \cup
                          (IF price # fuelPrice.price THEN {"fuelPrice.price"} ELSE {}),
                       FALSE))

(***************************************************************************)
(* Actions: search                                                         *)
(***************************************************************************)
Range(seq) == {seq[i] : i \in 1..Len(seq)}

\* onChange of the origin input.
OriginQueryChange(text) ==
  /\ mounted
  /\ text # originQuery
  /\ Commit(Render([Cur EXCEPT !.originQuery = text], {"originQuery"}, FALSE))

\* onChange of the destination input.
DestQueryChange(text) ==
  /\ mounted
  /\ text # destQuery
  /\ Commit(Render([Cur EXCEPT !.destQuery = text], {"destQuery"}, FALSE))

\* The timer of useDebounce(originQuery, 400) expires.
OriginDebounceFire ==
  /\ originTimer
  /\ Commit(Render([Cur EXCEPT !.originTimer = FALSE,
                               !.debouncedOriginQuery = originQuery],
                   IF debouncedOriginQuery # originQuery
                   THEN {"debouncedOriginQuery"} ELSE {},
                   FALSE))

\* The timer of useDebounce(destQuery, 400) expires.
DestDebounceFire ==
  /\ destTimer
  /\ Commit(Render([Cur EXCEPT !.destTimer = FALSE,
                               !.debouncedDestQuery = destQuery],
                   IF debouncedDestQuery # destQuery
                   THEN {"debouncedDestQuery"} ELSE {},
                   FALSE))

\* searchLocation(debouncedOriginQuery).then(setOriginSuggestions)
OriginSearchResolve(call, outcome) ==
  /\ call \in originSearches
  /\ Commit(Render([Cur EXCEPT !.originSearches = @ \ {call},
                               !.originSuggestions =
                                  searchLocation(call.query, outcome)],
                   {}, FALSE))

\* searchLocation(debouncedDestQuery).then(setDestSuggestions)
DestSearchResolve(call, outcome) ==
  /\ call \in destSearches
  /\ Commit(Render([Cur EXCEPT !.destSearches = @ \ {call},
                               !.destSuggestions =
                                  searchLocation(call.query, outcome)],
                   {}, FALSE))

\* A click on a suggestion of the dropdown of the channel `type`.
selectSuggestion(point, type) ==
  IF type = "origin"
  THEN /\ point \in Range(originSuggestions)
       /\ Commit(Render([Cur EXCEPT !.origin = point,
                                    !.originQuery = point.label,
                                    !.originSuggestions = <<>>],
                        {"origin"} \cup
                          (IF point.label # originQuery THEN {"originQuery"} ELSE {}),
                        FALSE))
  ELSE /\ point \in Range(destSuggestions)
       /\ Commit(Render([Cur EXCEPT !.destination = point,
                                    !.destQuery = point.label,
                                    !.destSuggestions = <<>>],
                        {"destination"} \cup
                          (IF point.label # destQuery THEN {"destQuery"} ELSE {}),
                        FALSE))

\* The clear button of the origin input (shown while the query is not empty).
ClearOrigin ==
  /\ mounted
  /\ originQuery # ""
  /\ Commit(Render([Cur EXCEPT !.originQuery = "", !.origin = Null],
                   {"originQuery"} \cup (IF origin # Null THEN {"origin"} ELSE {}),
                   FALSE))

\* The clear button of the destination input.
ClearDest ==
  /\ mounted
  /\ destQuery # ""
  /\ Commit(Render([Cur EXCEPT !.destQuery = "", !.destination = Null],
                   {"destQuery"} \cup
                     (IF destination # Null THEN {"destination"} ELSE {}),
                   FALSE))

(***************************************************************************)
(* Actions: trip                                                           *)
(***************************************************************************)
\* The positions the device may report, and the display name the geocoding
\* service holds for each.
GeoPositions == {[lat |-> 40, lon |-> -4], [lat |-> 41, lon |-> 2]}

NominatimReverse(lat, lon) ==
  IF lat = 40 THEN NominatimMadrid.display_name ELSE NominatimBarcelona.display_name

\* The GPS button (shown while the origin query is empty).
handleUserLocation ==
  /\ mounted
  /\ originQuery = ""
  /\ Commit(Render([Cur EXCEPT !.isLocatingUser = TRUE, !.geoPending = @ + 1],
                   {}, FALSE))

\* getCurrentPosition failed.
GeolocationError ==
  /\ geoPending > 0
  /\ Commit(Render([Cur EXCEPT !.isLocatingUser = FALSE, !.geoPending = @ - 1],
                   {}, FALSE))

\* getCurrentPosition reported `pos` and reverseGeocode resolved.
GeolocationResolve(pos, outcome) ==
  /\ geoPending > 0
  /\ LET label == reverseGeocode(pos.lat, pos.lon, outcome,
                                 NominatimReverse(pos.lat, pos.lon))
         point == LocationPoint(pos.lat, pos.lon, label)
     IN  Commit(Render([Cur EXCEPT !.origin = point,
                                   !.originQuery = label,
                                   !.isLocatingUser = FALSE,
                                   !.geoPending = @ - 1],
                       {"origin"} \cup
                         (IF label # originQuery THEN {"originQuery"} ELSE {}),
                       FALSE))

handleSwap ==
  /\ mounted
  /\ Commit(Render([Cur EXCEPT !.origin = destination,
                               !.originQuery = destQuery,
                               !.destination = origin,
                               !.destQuery = originQuery],
                   (IF origin # Null \/ destination # Null
                    THEN {"origin", "destination"} ELSE {})
                   \cup (IF originQuery # destQuery
                         THEN {"originQuery", "destQuery"} ELSE {}),
                   FALSE))

\* handleCalculateRoute after its await, without the setRoute(null) of the
\* failure branch.
RouteResolve_KeepsRoute(call, outcome, code, candidates) ==
  /\ call \in routeRequests
  /\ LET result == calculateRoute(call.start, call.end, outcome, code, candidates)
         W == [Cur EXCEPT !.routeRequests = @ \ {call},
                          !.route = IF result # Null THEN result ELSE @,
                          !.routeError =
                             IF result # Null THEN @
                             ELSE "Ruta no encontrada. Intenta puntos mas cercanos a carreteras.",
                          !.isRouting = FALSE,
                          !.latestRouteResult =
                             IF call.seq = routeSeq THEN result ELSE @]
     IN  Commit(Render(W, IF result # Null THEN {"route"} ELSE {}, FALSE))

\* handleCalculateRoute after its await: calculateRoute resolved.
RouteResolve(call, outcome, code, candidates) ==
  /\ call \in routeRequests
  /\ LET result == calculateRoute(call.start, call.end, outcome, code, candidates)
         W == [Cur EXCEPT !.routeRequests = @ \ {call},
                          !.route = result,
                          !.routeError =
                             IF result # Null THEN @
                             ELSE "Ruta no encontrada. Intenta puntos mas cercanos a carreteras.",
                          !.isRouting = FALSE,
                          !.latestRouteResult =
                             IF call.seq = routeSeq THEN result ELSE @]
     IN  Commit(Render(W, IF result # Null \/ route # Null THEN {"route"} ELSE {},
                       FALSE))

\* The responses the routing service may give: (fetch outcome, status code,
\* number of route candidates).
RouteResponses ==
  {<<"ok", "Ok", 1>>, <<"ok", "NoRoute", 0>>, <<"ok", "Ok", 0>>,
   <<"http_error", "", 0>>, <<"network_error", "", 0>>}

(***************************************************************************)
(* Actions: fuel price                                                     *)
(***************************************************************************)
\* The refresh button of the price input.
RefreshClick ==
  /\ mounted
  /\ Commit(Render(refreshFuelPrice(Cur), {}, FALSE))

\* onChange of the price input without isAuto: false.
FuelPriceChange_KeepsFlag(price) ==
  /\ mounted
  /\ Commit(Render([Cur EXCEPT !.fuelPrice = [@ EXCEPT !.price = price],
                               !.storedPriceOrigin =
                                  IF price # fuelPrice.price THEN "manual" ELSE @],
                   {"fuelPrice"} \cup
                     (IF price # fuelPrice.price THEN {"fuelPrice.price"} ELSE {}),
                   FALSE))

\* onChange of the price input: `price` is parseFloat(e.target.value).
FuelPriceChange(price) ==
  /\ mounted
  /\ Commit(Render([Cur EXCEPT !.fuelPrice = [@ EXCEPT !.price = price,
                                                       !.isAuto = FALSE],
                               !.storedPriceOrigin =
                                  IF price # fuelPrice.price THEN "manual" ELSE @],
                   {"fuelPrice"} \cup
                     (IF price # fuelPrice.price THEN {"fuelPrice.price"} ELSE {}),
                   FALSE))

(***************************************************************************)
(* Actions: VehicleManager and the vehicle handlers of App                 *)
(***************************************************************************)
\* JavaScript truthiness of editingVehicle.consumptionValue ('' or a number).
ConsumptionTruthy(value) == value # EmptyInput /\ NumTruthy(value)

\* Number(editingVehicle.consumptionValue)
ToNumber(value) == IF value = EmptyInput THEN Int2Num(0) ELSE value

\* The disabled attribute of the Guardar button.
SaveDisabled(editing) ==
  editing.name = "" \/ ~ConsumptionTruthy(editing.consumptionValue)

\* The early return of handleSaveForm.
SaveFormReturnsEarly(editing) ==
  editing.name = "" \/ editing.consumptionValue = EmptyInput

\* The ids in use: crypto.randomUUID() returns none of them.
UsedIds ==
  {v.id : v \in Range(vehicles)} \cup DOMAIN firestore
    \cup {v.id : v \in Range(getStoredVehicles(localStorage))}
    \cup {p.vehicle.id : p \in savePending}

handleAddNew(id) ==
  /\ mounted
  /\ id \notin UsedIds
  /\ Commit(Render([Cur EXCEPT !.editingVehicle =
                                  Vehicle(id, "", EmptyInput, L_PER_100KM),
                               !.isModalOpen = TRUE],
                   {}, FALSE))

handleEdit(v) ==
  /\ mounted
  /\ v \in Range(vehicles)
  /\ Commit(Render([Cur EXCEPT !.editingVehicle = v, !.isModalOpen = TRUE],
                   {}, FALSE))

\* onChange of the name input of the form.
NameChange(name) ==
  /\ isModalOpen
  /\ name # editingVehicle.name
  /\ Commit(Render([Cur EXCEPT !.editingVehicle = [@ EXCEPT !.name = name]],
                   {}, FALSE))

\* onChange of the consumption input: `value` is EmptyInput for '' and
\* parseFloat(val) otherwise.
ConsumptionChange(value) ==
  /\ isModalOpen
  /\ value # editingVehicle.consumptionValue
  /\ Commit(Render([Cur EXCEPT !.editingVehicle =
                                  [@ EXCEPT !.consumptionValue = value]],
                   {}, FALSE))

\* onChange of the unit select.
UnitChange(unit) ==
  /\ isModalOpen
  /\ unit # editingVehicle.consumptionUnit
  /\ Commit(Render([Cur EXCEPT !.editingVehicle =
                                  [@ EXCEPT !.consumptionUnit = unit]],
                   {}, FALSE))

\* The Cancelar button and the close button of the modal.
CloseModal ==
  /\ isModalOpen
  /\ Commit(Render([Cur EXCEPT !.isModalOpen = FALSE], {}, FALSE))

\* handleSaveVehicle up to its await: the call carries the selectedVehicleId
\* of the render whose handler was invoked.
handleSaveVehicle(W, v) ==
  [W EXCEPT !.savePending = @ \cup {[vehicle |-> v,
                                     selectedVehicleId |-> W.selectedVehicleId]}]

\* A click on the Guardar button (a disabled button receives no click).
handleSaveForm ==
  /\ isModalOpen
  /\ ~SaveDisabled(editingVehicle)
  /\ ~SaveFormReturnsEarly(editingVehicle)
  /\ LET finalVehicle == [editingVehicle EXCEPT
                            !.consumptionValue = ToNumber(@)]
     IN  Commit(Render([handleSaveVehicle(Cur, finalVehicle)
                          EXCEPT !.isModalOpen = FALSE],
                       {}, FALSE))

\* handleSaveVehicle updating the list before knowing how setDoc ended.
SaveVehicleResolve_Optimistic(call, outcome) ==
  /\ call \in savePending
  /\ LET v == call.vehicle
         idx == {i \in 1..Len(vehicles) : vehicles[i].id = v.id}
         updated == IF idx # {}
                    THEN [vehicles EXCEPT ![CHOOSE i \in idx : \A j \in idx : i <= j] = v]
                    ELSE Append(vehicles, v)
         W == IF outcome = "ok"
              THEN [Cur EXCEPT !.savePending = @ \ {call},
                               !.firestore = saveVehicle(@, v),
                               !.vehicles = updated]
              ELSE [Cur EXCEPT !.savePending = @ \ {call},
                               !.vehicles = updated,
                               !.alertShown = "Error al guardar el vehiculo en la nube."]
     IN  Commit(Render(W, {"vehicles"}, FALSE))

\* handleSaveVehicle after its await: setDoc succeeded, or was rejected.
SaveVehicleResolve(call, outcome) ==
  /\ call \in savePending
  /\ LET v == call.vehicle
         idx == {i \in 1..Len(vehicles) : vehicles[i].id = v.id}
         updated == IF idx # {}
                    THEN [vehicles EXCEPT ![CHOOSE i \in idx : \A j \in idx : i <= j] = v]
                    ELSE Append(vehicles, v)
         select == call.selectedVehicleId = NullStr
         W == IF outcome = "ok"
              THEN [Cur EXCEPT !.savePending = @ \ {call},
                               !.firestore = saveVehicle(@, v),
                               !.vehicles = updated,
                               !.selectedVehicleId = IF select THEN v.id ELSE @]
              ELSE [Cur EXCEPT !.savePending = @ \ {call},
                               !.alertShown = "Error al guardar el vehiculo en la nube."]
     IN  Commit(Render(W,
                       IF outcome = "ok"
                       THEN {"vehicles"} \cup
                              (IF select /\ selectedVehicleId # v.id
                               THEN {"selectedVehicleId"} ELSE {})
                       ELSE {},
                       FALSE))

\* The delete button of a vehicle, confirmed: handleDeleteVehicle up to its await.
handleDelete(id) ==
  /\ mounted
  /\ \E v \in Range(vehicles) : v.id = id
  /\ Commit(Render([Cur EXCEPT !.deletePending =
                                  @ \cup {[id |-> id,
                                           selectedVehicleId |-> selectedVehicleId]}],
                   {}, FALSE))

\* handleDeleteVehicle after its await: deleteDoc succeeded, or was rejected.
DeleteVehicleResolve(call, outcome) ==
  /\ call \in deletePending
  /\ LET deselect == call.selectedVehicleId = call.id
         W == IF outcome = "ok"
              THEN [Cur EXCEPT !.deletePending = @ \ {call},
                               !.firestore = deleteVehicle(@, call.id),
                               !.vehicles = SelectSeq(@, LAMBDA v : v.id # call.id),
                               !.selectedVehicleId = IF deselect THEN NullStr ELSE @]
              ELSE [Cur EXCEPT !.deletePending = @ \ {call},
                               !.alertShown = "Error al eliminar el vehiculo de la nube."]
     IN  Commit(Render(W,
                       IF outcome = "ok"
                       THEN {"vehicles"} \cup
                              (IF deselect /\ selectedVehicleId # NullStr
                               THEN {"selectedVehicleId"} ELSE {})
                       ELSE {},
                       FALSE))

\* A click on a vehicle of the list.
onSelect(id) ==
  /\ mounted
  /\ \E v \in Range(vehicles) : v.id = id
  /\ id # selectedVehicleId
  /\ Commit(Render([Cur EXCEPT !.selectedVehicleId = id],
                   {"selectedVehicleId"}, FALSE))

(***************************************************************************)
(* Specifications                                                          *)
(***************************************************************************)
\* Loading: every local storage and remote collection of the model.
NextLoad ==
  \/ Mount
  \/ \E outcome \in {"ok", "network_error"} : GetVehiclesResolve(outcome)
  \/ \E price \in FuelPrices : FetchFuelPriceResolve(price)

SpecLoad == Init /\ [][NextLoad]_vars

\* A first visit: nothing in local storage, the remote collection holds two
\* vehicles.
InitFirstVisit ==
  InitWith([fuelwise_vehicles |-> Null, fuelwise_selected_vehicle_id |-> NullStr,
            fuelwise_last_price |-> NullStr],
           [id \in {"v1", "v2"} |-> IF id = "v1" THEN CarA ELSE CarB])

\* What the user types into a search input.
TypedQueries == {"Ma", "Madrid", "Barcelona"}

SearchOutcomes == {"ok", "network_error"}

\* The search facet.
NextSearch ==
  \/ Mount
  \/ \E text \in TypedQueries : OriginQueryChange(text)
  \/ \E text \in {"Madrid"} : DestQueryChange(text)
  \/ OriginDebounceFire
  \/ DestDebounceFire
  \/ \E call \in originSearches, outcome \in SearchOutcomes :
       OriginSearchResolve(call, outcome)
  \/ \E call \in destSearches, outcome \in SearchOutcomes :
       DestSearchResolve(call, outcome)
  \/ \E point \in Range(originSuggestions) : selectSuggestion(point, "origin")
  \/ ClearOrigin

SpecSearch == InitFirstVisit /\ [][NextSearch]_vars

\* The trip facet: the origin comes from the device location, the destination
\* from a swap.
NextTrip ==
  \/ Mount
  \/ handleUserLocation
  \/ GeolocationError
  \/ \E pos \in GeoPositions : GeolocationResolve(pos, "ok")
  \/ handleSwap
  \/ ClearOrigin
  \/ ClearDest
  \/ \E call \in routeRequests, response \in RouteResponses :
       RouteResolve(call, response[1], response[2], response[3])

SpecTrip == InitFirstVisit /\ [][NextTrip]_vars

\* The garage with a trip: the vehicles are loaded, the user obtains a route
\* from the device location and a swap (one location request at a time, a
\* swap only while there is no destination), and selects, edits and deletes
\* vehicles.
NextGarage ==
  \/ Mount
  \/ GetVehiclesResolve("ok")
  \/ FetchFuelPriceResolve(Num(31, 20))
  \/ (geoPending = 0 /\ origin = Null /\ handleUserLocation)
  \/ GeolocationResolve([lat |-> 40, lon |-> -4], "ok")
  \/ (destination = Null /\ handleSwap)
  \/ \E call \in routeRequests : RouteResolve(call, "ok", "Ok", 1)
  \/ \E v \in Range(vehicles) : handleEdit(v)
  \/ \E value \in {Int2Num(8)} : ConsumptionChange(value)
  \/ handleSaveForm
  \/ \E call \in savePending : SaveVehicleResolve(call, "ok")
  \/ \E id \in Range(VehicleIds) : handleDelete(id)
  \/ \E call \in deletePending : DeleteVehicleResolve(call, "ok")
  \/ \E id \in Range(VehicleIds) : onSelect(id)

SpecGarage == InitFirstVisit /\ [][NextGarage]_vars

\* What the user types into the form.
TypedNames == {"", "Test Car"}

TypedConsumptions == {EmptyInput, Int2Num(0), Int2Num(-5), NaN, Int2Num(6)}

\* The id crypto.randomUUID() returns.
NewIds == {"v3"}

\* The vehicle form: a first vehicle is added, and edited.
NextForm ==
  \/ Mount
  \/ \E id \in NewIds : handleAddNew(id)
  \/ \E v \in Range(vehicles) : handleEdit(v)
  \/ \E name \in TypedNames : NameChange(name)
  \/ \E value \in TypedConsumptions : ConsumptionChange(value)
  \/ \E unit \in FuelUnit : UnitChange(unit)
  \/ CloseModal
  \/ handleSaveForm
  \/ \E call \in savePending, outcome \in {"ok", "network_error"} :
       SaveVehicleResolve(call, outcome)

SpecForm == InitFirstVisit /\ [][NextForm]_vars

\* How a write to the remote collection may end.
WriteOutcomes == {"ok", "network_error"}

\* The garage without a trip: the vehicles are loaded, selected, edited and
\* deleted, and the writes to the remote collection may fail.
NextWrites ==
  \/ Mount
  \/ GetVehiclesResolve("ok")
  \/ \E v \in Range(vehicles) : handleEdit(v)
  \/ \E value \in {Int2Num(8)} : ConsumptionChange(value)
  \/ handleSaveForm
  \/ \E call \in savePending, outcome \in WriteOutcomes :
       SaveVehicleResolve(call, outcome)
  \/ \E id \in Range(VehicleIds) : handleDelete(id)
  \/ \E call \in deletePending, outcome \in WriteOutcomes :
       DeleteVehicleResolve(call, outcome)
  \/ \E id \in Range(VehicleIds) : onSelect(id)

SpecWrites == InitFirstVisit /\ [][NextWrites]_vars

\* The prices the user types into the price input (parseFloat of the text).
TypedPrices == {Num(3, 2), Num(17, 10), Int2Num(0), Int2Num(-1), NaN}

\* The fuel price over several sessions: refreshes, manual edits, reloads.
NextPrice ==
  \/ Mount
  \/ Reload
  \/ GetVehiclesResolve("ok")
  \/ RefreshClick
  \/ \E price \in FuelPrices : FetchFuelPriceResolve(price)
  \/ \E price \in TypedPrices : FuelPriceChange(price)

SpecPrice == InitFirstVisit /\ [][NextPrice]_vars

\* The ways a remote fetch fails: fetch rejects, the response is not ok, the
\* body is not JSON, the body is JSON without the expected content.
FetchFailures == {"network_error", "http_error", "invalid_json", "empty_payload"}

ServiceOutcomes == {"ok"} \cup FetchFailures

\* The remote services failing: the load, a search, the reverse geocoding of
\* the device location and the routing of a trip.  The user makes one
\* search before any point is set, and clears the origin box once the search
\* has answered.
NextFailures ==
  \/ Mount
  \/ \E outcome \in {"ok", "network_error"} : GetVehiclesResolve(outcome)
  \/ (originSearchSeq = 0 /\ geoPending = 0 /\ origin = Null /\ destination = Null
        /\ OriginQueryChange("Madrid"))
  \/ OriginDebounceFire
  \/ \E call \in originSearches, outcome \in ServiceOutcomes :
       OriginSearchResolve(call, outcome)
  \/ (originSearches = {} /\ ~originTimer /\ origin = Null /\ destination = Null
        /\ ClearOrigin)
  \/ (geoPending = 0 /\ handleUserLocation)
  \/ \E pos \in GeoPositions, outcome \in ServiceOutcomes :
       GeolocationResolve(pos, outcome)
  \/ (destination = Null /\ handleSwap)
  \/ \E call \in routeRequests,
        response \in RouteResponses \cup {<<"invalid_json", "", 0>>} :
       RouteResolve(call, response[1], response[2], response[3])

SpecFailures == InitFirstVisit /\ [][NextFailures]_vars

\* A vehicle added, edited, saved and deleted while the load is still under
\* way or after it, over each content the remote collection may start with.
\* The user edits the vehicle added, and deletes it or the first document.
InitSaveLoad ==
  \E store \in Stores :
    InitWith([fuelwise_vehicles |-> Null, fuelwise_selected_vehicle_id |-> NullStr,
              fuelwise_last_price |-> NullStr], store)

NextSaveLoad ==
  \/ Mount
  \/ \E outcome \in {"ok", "network_error"} : GetVehiclesResolve(outcome)
  \/ \E id \in NewIds : handleAddNew(id)
  \/ \E v \in {w \in Range(vehicles) : w.id \in NewIds} : handleEdit(v)
  \/ NameChange("Test Car")
  \/ ConsumptionChange(Int2Num(8))
  \/ handleSaveForm
  \/ \E call \in savePending, outcome \in WriteOutcomes :
       SaveVehicleResolve(call, outcome)
  \/ \E id \in {"v1"} \cup NewIds : handleDelete(id)
  \/ \E call \in deletePending, outcome \in WriteOutcomes :
       DeleteVehicleResolve(call, outcome)

SpecSaveLoad == InitSaveLoad /\ [][NextSaveLoad]_vars

\* The inputs of calculateCost.
CostConsumptions == {Int2Num(0), Int2Num(6), Int2Num(15), Num(9, 2)}

CostDistances == {Int2Num(0), Int2Num(100), Int2Num(150), Num(25, 2)}

CostPrices == {Num(8, 5), Num(3, 2), Int2Num(0)}

\* A mounted App holding one selected vehicle, a price and the route its one
\* route request resolved to, before the calculation effect has run.
InitCost ==
  \E value \in CostConsumptions, unit \in FuelUnit, distanceKm \in CostDistances,
     price \in CostPrices :
    LET car == Vehicle("v1", "Test Car", value, unit)
        store == [id \in {"v1"} |-> car]
        ls == [fuelwise_vehicles |-> JsonStringify(<<car>>),
               fuelwise_selected_vehicle_id |-> "v1",
               fuelwise_last_price |-> NumToString(price)]
    IN  StateIs([InitialState(ls, store) EXCEPT
                   !.mounted = TRUE,
                   !.getVehiclesResult = [ok |-> TRUE, docs |-> <<car>>],
                   !.vehicles = <<car>>,
                   !.selectedVehicleId = "v1",
                   !.origin = LocationPoint(40, -4, "Madrid, ES"),
                   !.originQuery = "Madrid, ES",
                   !.debouncedOriginQuery = "Madrid, ES",
                   !.destination = LocationPoint(41, 2, "Barcelona, ES"),
                   !.destQuery = "Barcelona, ES",
                   !.debouncedDestQuery = "Barcelona, ES",
                   !.routeSeq = 1,
                   !.route = [distanceKm |-> distanceKm,
                              durationMin |-> Int2Num(60),
                              geometry |-> <<-4, 40, 2, 41>>],
                   !.latestRouteResult = [distanceKm |-> distanceKm,
                                          durationMin |-> Int2Num(60),
                                          geometry |-> <<-4, 40, 2, 41>>],
                   !.fuelPrice = [price |-> price, lastUpdated |-> 0,
                                  isAuto |-> FALSE]])

\* The calculation effect runs.
RunCalculateCost ==
  /\ mounted
  /\ calculation = Null
  /\ Commit(CalculationEffect(Cur, Cur))

NextCost == RunCalculateCost

SpecCost == InitCost /\ [][NextCost]_vars

(***************************************************************************)
(* Claims                                                                  *)
(***************************************************************************)
\* C1: once the initial fetch has completed, the in-memory vehicle list is the
\* fetched list if the fetch succeeded with a non-empty list, and otherwise
\* the list local storage held when the application started.
C1_LoadAdoptsRemoteOrStartList ==
  getVehiclesResult # Pending =>
    vehicles = IF getVehiclesResult.ok /\ Len(getVehiclesResult.docs) > 0
               THEN getVehiclesResult.docs
               ELSE startVehicles

\* C2: the response of an origin search that a later origin search has
\* superseded never changes the origin suggestion list.
C2_StaleSearchDiscarded ==
  [][\A call \in originSearches :
       (call.seq < originSearchSeq /\ originSearches' = originSearches \ {call})
         => originSuggestions' = originSuggestions]_vars

\* C3: once every route request has completed, with an origin and a
\* destination set, the route held is the outcome of the request issued last,
\* that is, of the request for the current pair of points.
C3_RouteIsLatestOutcome ==
  (routeRequests = {} /\ origin # Null /\ destination # Null /\ routeSeq > 0)
    => route = latestRouteResult

\* C4: a route held by the controller is one computed for the current origin
\* and destination; no route is held while either point is null.
C4_RouteMatchesCurrentPoints ==
  route # Null =>
    /\ origin # Null
    /\ destination # Null
    /\ route = calculateRoute(origin, destination, "ok", "Ok", 1)

\* C5: a routing error and a present route are mutually exclusive.
C5_ErrorExcludesRoute == routeError # NullStr => route = Null

\* No asynchronous call is outstanding.
NoCallOutstanding ==
  /\ ~getVehiclesPending
  /\ savePending = {}
  /\ deletePending = {}
  /\ routeRequests = {}
  /\ geoPending = 0
  /\ pricePending = 0

\* C6: in every settled state with a route and a selected vehicle, the
\* calculation held is the calculator's result for the current route
\* distance, the selected vehicle's current consumption and the current price.
C6_CalculationIsCurrent ==
  (NoCallOutstanding /\ route # Null
     /\ FindVehicle(vehicles, selectedVehicleId) # Null)
    => calculation = TripCalculation(FindVehicle(vehicles, selectedVehicleId),
                                     route.distanceKm, fuelPrice.price)

\* C7: in every settled state without a route, or in which no vehicle of the
\* list has the selected id, the calculation is null.
C7_NoCalculationWithoutInputs ==
  (NoCallOutstanding
     /\ (route = Null \/ FindVehicle(vehicles, selectedVehicleId) = Null))
    => calculation = Null

\* The normalized consumption as the specification words it: the value for
\* L/100km, 100 / value for km/L.
NormalizedLPer100(value, unit) ==
  IF unit = L_PER_100KM THEN value ELSE Num(100 * value.d, value.n)

\* C8: for a positive consumption value, calculateCost produces
\* litersNeeded = distanceKm * normalizedLPer100 / 100, totalCost =
\* litersNeeded * price and costPer100Km = normalizedLPer100 * price; 6 L/100km
\* over 100 km at 1.60 gives 6 liters, 9.60 in total and 9.60 per 100 km;
\* 15 km/L over 150 km at 1.50 gives 10 liters and 15 in total.
C8_CostArithmetic ==
  (calculation # Null /\ NumPositive(vehicles[1].consumptionValue)) =>
    LET v == vehicles[1]
        norm == NormalizedLPer100(v.consumptionValue, v.consumptionUnit)
        liters == NumDiv(NumMul(route.distanceKm, norm), Int2Num(100))
    IN  /\ calculation.litersNeeded = liters
        /\ calculation.totalCost = NumMul(liters, fuelPrice.price)
        /\ calculation.costPer100Km = NumMul(norm, fuelPrice.price)
        /\ (v.consumptionValue = Int2Num(6) /\ v.consumptionUnit = L_PER_100KM
              /\ route.distanceKm = Int2Num(100) /\ fuelPrice.price = Num(160, 100))
             => calculation = [litersNeeded |-> Int2Num(6),
                               totalCost |-> Num(960, 100),
                               costPer100Km |-> Num(960, 100)]
        /\ (v.consumptionValue = Int2Num(15) /\ v.consumptionUnit = KM_PER_L
              /\ route.distanceKm = Int2Num(150) /\ fuelPrice.price = Num(150, 100))
             => (calculation.litersNeeded = Int2Num(10)
                   /\ calculation.totalCost = Int2Num(15))

\* C8 witness: the calculation of the 15 km/L vehicle over 150 km at 1.50 has
\* been computed.
C8_Witness ==
  /\ vehicles[1].consumptionValue = Int2Num(15)
  /\ vehicles[1].consumptionUnit = KM_PER_L
  /\ route # Null
  /\ route.distanceKm = Int2Num(150)
  /\ fuelPrice.price = Num(3, 2)
  /\ calculation # Null
  /\ calculation.litersNeeded = Int2Num(10)

\* C9: the normalized rate is 100 / value for a non-zero km/L value, and the
\* value itself for a zero value or for L/100km; the calculation holds only
\* finite numbers.
C9_NoDivisionByZero ==
  calculation # Null =>
    LET v == vehicles[1]
        norm == IF v.consumptionUnit = KM_PER_L /\ v.consumptionValue # Int2Num(0)
                THEN NumDiv(Int2Num(100), v.consumptionValue)
                ELSE v.consumptionValue
    IN  /\ calculation.costPer100Km = NumMul(norm, fuelPrice.price)
        /\ IsFinite(calculation.litersNeeded)
        /\ IsFinite(calculation.totalCost)
        /\ IsFinite(calculation.costPer100Km)

\* The vehicles the form has handed to onSave.
FormVehicles ==
  {call.vehicle : call \in savePending}
    \cup {v \in Range(vehicles) : v.id \in NewIds}
    \cup {firestore[id] : id \in DOMAIN firestore \cap NewIds}
    \cup {v \in Range(getStoredVehicles(localStorage)) : v.id \in NewIds}

\* C10: every vehicle that came through the form, on its way to the store, in
\* the store, in the in-memory list or in the locally persisted list, has a
\* name and a consumption value greater than zero.
C10_FormVehiclesPositive ==
  \A v \in FormVehicles : v.name # "" /\ NumPositive(v.consumptionValue)

\* C11: when a deletion succeeds, the vehicle is absent from the in-memory
\* list and from the remote collection, and if it was the selected vehicle no
\* vehicle is selected afterwards, whether or not other vehicles remain.
C11_DeletionRemovesAndDeselects ==
  [][\A call \in deletePending :
       (deletePending' = deletePending \ {call}
          /\ call.id \in DOMAIN firestore /\ call.id \notin DOMAIN firestore')
         => /\ FindVehicle(vehicles', call.id) = Null
            /\ (selectedVehicleId = call.id => selectedVehicleId' = NullStr)]_vars

\* A step in which the save `call` completes without the remote collection
\* holding its vehicle, and one in which the deletion `call` completes with
\* the remote collection still holding its vehicle: the write was rejected.
SaveRejected(call) ==
  /\ savePending' = savePending \ {call}
  /\ \/ call.vehicle.id \notin DOMAIN firestore'
     \/ firestore'[call.vehicle.id] # call.vehicle

DeleteRejected(call) ==
  /\ deletePending' = deletePending \ {call}
  /\ call.id \in DOMAIN firestore'

\* C12: a rejected save or deletion raises an alert and leaves the in-memory
\* list and the selected id as they were; the in-memory list changes only
\* when the initial fetch completes or in a step in which a save or a
\* deletion is applied to the remote collection.
C12_FailedWriteLeavesState ==
  [][/\ \A call \in savePending :
          SaveRejected(call)
            => /\ alertShown' = "Error al guardar el vehiculo en la nube."
               /\ vehicles' = vehicles
               /\ selectedVehicleId' = selectedVehicleId
     /\ \A call \in deletePending :
          DeleteRejected(call)
            => /\ alertShown' = "Error al eliminar el vehiculo de la nube."
               /\ vehicles' = vehicles
               /\ selectedVehicleId' = selectedVehicleId
     /\ vehicles' # vehicles
          => \/ getVehiclesPending /\ ~getVehiclesPending'
             \/ \E call \in savePending :
                  /\ savePending' = savePending \ {call}
                  /\ firestore' = saveVehicle(firestore, call.vehicle)
             \/ \E call \in deletePending :
                  /\ deletePending' = deletePending \ {call}
                  /\ firestore' = deleteVehicle(firestore, call.id)]_vars

\* C12 witness: the save of an edited vehicle was rejected, the alert is up
\* and the list still holds the vehicle as loaded.
C12_Witness ==
  /\ alertShown = "Error al guardar el vehiculo en la nube."
  /\ savePending = {}
  /\ editingVehicle # Null
  /\ editingVehicle.id = "v1"
  /\ editingVehicle.consumptionValue = Int2Num(8)
  /\ vehicles = <<CarA, CarB>>
  /\ firestore["v1"] = CarA

\* C13: when the initial fetch completes, the selection becomes the id local
\* storage holds if a vehicle of the loaded list has it, otherwise the id of
\* the first vehicle of the loaded list, and none if the list is empty.
C13_SelectionDefault ==
  [][(getVehiclesPending /\ ~getVehiclesPending')
       => selectedVehicleId' =
            IF Len(vehicles') = 0 THEN NullStr
            ELSE IF FindVehicle(vehicles',
                                getStoredSelectedVehicleId(localStorage)) # Null
            THEN getStoredSelectedVehicleId(localStorage)
            ELSE vehicles'[1].id]_vars

\* C13 witness: two vehicles were loaded and the stored id, the second
\* vehicle's, was adopted.
C13_Witness ==
  /\ getVehiclesResult # Pending
  /\ Len(vehicles) = 2
  /\ vehicles[1].id = "v1"
  /\ selectedVehicleId = "v2"

\* C14: when App is mounted, a stored price that came from the built-in
\* default or from a refresh (or no stored price) leads to an automatic
\* refresh with the flag left at auto, and a stored price a manual edit
\* produced is adopted with the flag manual.
C14_LoadAdoptsOnlyManualPrice ==
  [][(~mounted /\ mounted')
       => /\ storedPriceOrigin \in {"none", "default", "auto"}
               => fuelPrice'.isAuto /\ pricePending' > 0
          /\ (storedPriceOrigin = "manual"
                /\ NumPositive(getStoredPrice(localStorage)))
               => /\ ~fuelPrice'.isAuto
                  /\ fuelPrice'.price = getStoredPrice(localStorage)]_vars

\* C15: in every settled state of the mounted App, local storage holds the
\* in-memory vehicle list, the in-memory selected id (none included) and the
\* in-memory fuel price.
C15_StorageMirrorsState ==
  mounted =>
    /\ getStoredVehicles(localStorage) = vehicles
    /\ getStoredSelectedVehicleId(localStorage) = selectedVehicleId
    /\ getStoredPrice(localStorage) = fuelPrice.price

\* C16: an origin search is issued only when the debounce timer expires, at
\* most one per expiry, for the text the input holds at that moment, and only
\* if that text has at least 3 characters.
C16_SearchOnlyForQuiescentQuery ==
  [][/\ Cardinality(originSearches' \ originSearches) <= 1
     /\ \A call \in originSearches' \ originSearches :
          /\ originTimer /\ ~originTimer'
          /\ call.query = originQuery'
          /\ Len(call.query) >= 3]_vars

\* C17: while the origin query equals the label of the selected origin, the
\* origin suggestion list is empty.
C17_SuggestionsSuppressedForSelectedLabel ==
  (origin # Null /\ origin.label = originQuery) => originSuggestions = <<>>

\* C18: while the debounced origin query has fewer than 3 characters, no
\* search for it is outstanding and the origin suggestion list is empty.
C18_ShortQueryNoSearchNoSuggestions ==
  (mounted /\ Len(debouncedOriginQuery) < 3) =>
    /\ \A call \in originSearches : call.query # debouncedOriginQuery
    /\ originSuggestions = <<>>

\* C19: when the routing response is not successful, its status code is not
\* "Ok", or it holds no route candidate, calculateRoute gives null, and the
\* step that handles the response leaves a null route (whatever route was
\* held before) and a non-empty error message.
FailedResponse(response) ==
  response[1] # "ok" \/ response[2] # "Ok" \/ response[3] = 0

C19_RouteFailureClearsRoute ==
  [][\A call \in routeRequests, response \in RouteResponses :
       (/\ FailedResponse(response)
        /\ RouteResolve(call, response[1], response[2], response[3]))
       => /\ calculateRoute(call.start, call.end,
                           response[1], response[2], response[3]) = Null
          /\ route' = Null
          /\ routeError' \notin {NullStr, ""}]_vars

\* A second request failed after a first one was made: the route is null and
\* the message is shown.
C19_Witness ==
  /\ routeSeq >= 2
  /\ routeRequests = {}
  /\ latestRouteResult = Null
  /\ route = Null
  /\ routeError \notin {NullStr, ""}

\* C20: a manual edit of the price leaves the flag manual; a completed refresh
\* leaves the flag auto with a new last-updated stamp; no other step of the
\* running page touches the fuel price, so that under any interleaving of
\* edits and refreshes the flag is the one of the operation that set the price
\* last.
C20_FlagFollowsLastPriceSetter ==
  [][(mounted /\ mounted') =>
       /\ \A price \in TypedPrices :
            FuelPriceChange(price)
            => /\ ~fuelPrice'.isAuto
               /\ fuelPrice'.price = price
               /\ fuelPrice'.lastUpdated = fuelPrice.lastUpdated
       /\ \A price \in FuelPrices :
            FetchFuelPriceResolve(price)
            => /\ fuelPrice'.isAuto
               /\ fuelPrice'.price = price
               /\ fuelPrice'.lastUpdated # fuelPrice.lastUpdated
       /\ fuelPrice' # fuelPrice
          => \/ \E price \in TypedPrices : FuelPriceChange(price)
             \/ \E price \in FuelPrices : FetchFuelPriceResolve(price)]_vars

\* A refresh has completed, the price was edited afterwards, and another
\* refresh is in flight.
C20_Witness ==
  /\ mounted
  /\ ~fuelPrice.isAuto
  /\ fuelPrice.lastUpdated > 0
  /\ pricePending > 0

\* C21: the price per liter held in the state, and the one written to local
\* storage, is a real number that is not negative, whatever was loaded,
\* refreshed or typed (an emptied field and a negative number included).
NonNegativeReal(a) == IsFinite(a) /\ a.n >= 0

C21_PriceIsNonNegativeReal ==
  mounted =>
    /\ NonNegativeReal(fuelPrice.price)
    /\ getStoredPrice(localStorage) # Null
       => NonNegativeReal(getStoredPrice(localStorage))

C23_SelectionInList ==
  mounted =>
    \/ selectedVehicleId = NullStr
    \/ \E i \in 1..Len(vehicles) : vehicles[i].id = selectedVehicleId

\* C24: the routing-in-progress flag is true exactly in the states in which
\* at least one route request is outstanding, also when a second computation
\* is started before the first has completed.
C24_RoutingFlagMatchesRequests == isRouting <=> routeRequests # {}

\* C25: a vehicle whose save succeeded is in the in-memory list with the
\* values saved, and stays there in every later step that is not a
\* successful deletion or a newer successful save of its id; the completion
\* of the load after the save is such a step.  The remote collection holds
\* exactly the vehicles whose save succeeded and was not followed by a
\* successful deletion.
InVehicles(list, v) == \E i \in 1..Len(list) : list[i] = v

SavedAs(store, v) == v.id \in DOMAIN store /\ store[v.id] = v

====
